---- MODULE Spec2Model ----
(***************************************************************************)
(* A model of Serialization/serializer.cpp: the Archive abstraction, its   *)
(* file-backed implementation FileArchive, the two orchestration functions *)
(* SerializeToFile / SerializeFromFile and the example object Foo.         *)
(*                                                                         *)
(* Representation.                                                         *)
(*  - A byte is a number in 0..255; a file is a sequence of bytes.         *)
(*  - An int is an integer in -2^31..2^31-1.  Its memory image is the      *)
(*    4-byte two's complement little-endian image (the "native" image of   *)
(*    the platforms the program is built for).                             *)
(*  - An unsigned int is a record [hi, lo] of two 16-bit halves, its value *)
(*    being hi * 65536 + lo: the model checker's integers are 32-bit       *)
(*    signed, so 4294967295 is not a number it can hold.                    *)
(*  - A std::string is the sequence of its chars (as bytes), a std::vector *)
(*    the sequence of its elements.                                        *)
(*  - A std::fstream is the record [open, fail, pos] with its file's bytes *)
(*    kept in disk[path]; operator bool of the stream is ~fail.            *)
(***************************************************************************)
EXTENDS Integers, Sequences, FiniteSets, TLC

(***************************************************************************)
(* Bounds of the model.                                                    *)
(***************************************************************************)
\* operator<< calls a serialization callback issues against one archive
MaxOps == 2
\* longest text (terminator included) a read may allocate
MaxTextLen == 3
\* largest element count a container read may resize to
MaxCount == 2
\* longest file, in bytes, a Write-mode archive may produce
MaxFileLen == 16

(***************************************************************************)
(* Program constants.                                                      *)
(***************************************************************************)
\* sizeof(int), sizeof(unsigned int): the width of every scalar and prefix
SizeofInt == 4

Min(a, b) == IF a < b THEN a ELSE b

\* one statement after another: K applied to the value v of the first,
\* which is computed once
Do(v, K(_)) == CHOOSE out \in {K(x) : x \in {v}} : TRUE

(***************************************************************************)
(* Memory images.                                                          *)
(***************************************************************************)
\* reinterpret_cast<char*>(&val) of an int: its 4 bytes, lowest first
IntBytes(v) ==
    << v % 256, (v \div 256) % 256, (v \div 65536) % 256,
       (v \div 16777216) % 256 >>

\* the int whose memory image is the 4 bytes b
BytesInt(b) ==
    b[1] + 256 * b[2] + 65536 * b[3]
      + 16777216 * (IF b[4] >= 128 THEN b[4] - 256 ELSE b[4])

\* the unsigned int of a size_t n < 2^31 (unsigned int size = val.size())
U32Of(n) == [hi |-> n \div 65536, lo |-> n % 65536]

\* reinterpret_cast<char*>(&val) of an unsigned int
U32Bytes(u) == << u.lo % 256, u.lo \div 256, u.hi % 256, u.hi \div 256 >>

\* the unsigned int whose memory image is the 4 bytes b
BytesU32(b) == [hi |-> b[3] + 256 * b[4], lo |-> b[1] + 256 * b[2]]

\* an unsigned int below 2^31 as a number
NatOf(u) == u.hi * 65536 + u.lo

\* val.data() of a std::vector<int>: the images of its elements in order
VecImage(v) ==
    [i \in 1..(SizeofInt * Len(v)) |->
        IntBytes(v[((i - 1) \div SizeofInt) + 1])[((i - 1) % SizeofInt) + 1]]

\* the std::vector<int> whose backing memory is the bytes b
ImageVec(b) ==
    [i \in 1..(Len(b) \div SizeofInt) |->
        BytesInt(SubSeq(b, SizeofInt * (i - 1) + 1, SizeofInt * i))]

\* std::vector<T>::resize(n) and std::string::resize(n, fill): the first n
\* elements are kept, new ones are value-initialised
Resize(s, n, fill) == [i \in 1..n |-> IF i <= Len(s) THEN s[i] ELSE fill]

\* memory old after its first Len(got) bytes were overwritten by got
Overlay(old, got) == got \o SubSeq(old, Len(got) + 1, Len(old))

(***************************************************************************)
(* The stream.  m is the archive with its file: [mode, open, fail, pos,    *)
(* bytes, proc, over].  proc is the process ("running", "aborted" by a     *)
(* failed assert, "terminated" by an uncaught exception); over says that   *)
(* the operation needed an allocation beyond MaxTextLen / MaxCount.        *)
(***************************************************************************)
IsWrite(m) == m.mode = "Write"

IsRead(m) == m.mode = "Read"

\* file_ is never null after construction, so this is operator bool of the
\* stream: neither failbit nor badbit is set
IsStreamValid(m) == ~m.fail

Halted(m) == m.proc # "running"

\* file_->read(dst, n) with n >= 0: on a stream that is not good nothing
\* is extracted; else min(n, bytes left) bytes are extracted, and
\* failbit is set when fewer than n were there
StreamRead(m, n) ==
    IF m.fail
    THEN [m |-> m, got |-> << >>]
    ELSE LET k == Min(n, Len(m.bytes) - m.pos)
         IN  [m   |-> [m EXCEPT !.pos = @ + k, !.fail = (k < n)],
              got |-> SubSeq(m.bytes, m.pos + 1, m.pos + k)]

\* file_->write(src, n): appends the bytes (the file was truncated at open)
StreamWrite(m, b) ==
    IF m.fail THEN m ELSE [m EXCEPT !.bytes = @ \o b]

(***************************************************************************)
(* FileArchive's primitives.  Each returns the stream after the call and   *)
(* the argument after the call.                                            *)
(***************************************************************************)
\* ShlInt with sizeof(short) for sizeof(val) in the write branch
ShlInt_WritesShort(m, val) ==
    IF Halted(m) \/ ~IsStreamValid(m)
    THEN [m |-> m, val |-> val]
    ELSE IF IsWrite(m)
    THEN [m |-> StreamWrite(m, SubSeq(IntBytes(val), 1, 2)), val |-> val]
    ELSE LET r == StreamRead(m, SizeofInt)
         IN  [m |-> r.m, val |-> BytesInt(Overlay(IntBytes(val), r.got))]

\* void FileArchive::operator<<(int& val) const
ShlInt(m, val) ==
    IF Halted(m) \/ ~IsStreamValid(m)
    THEN [m |-> m, val |-> val]
    ELSE IF IsWrite(m)
    THEN [m |-> StreamWrite(m, IntBytes(val)), val |-> val]
    ELSE LET r == StreamRead(m, SizeofInt)
         IN  [m |-> r.m, val |-> BytesInt(Overlay(IntBytes(val), r.got))]

\* void FileArchive::operator<<(unsigned int& val) const
ShlUInt(m, val) ==
    IF Halted(m) \/ ~IsStreamValid(m)
    THEN [m |-> m, val |-> val]
    ELSE IF IsWrite(m)
    THEN [m |-> StreamWrite(m, U32Bytes(val)), val |-> val]
    ELSE LET r == StreamRead(m, SizeofInt)
         IN  [m |-> r.m, val |-> BytesU32(Overlay(U32Bytes(val), r.got))]

\* ShlString that writes val.length() bytes and no terminator
ShlString_NoTerminator(m, val, g) ==
    IF Halted(m) \/ ~IsStreamValid(m)
    THEN [m |-> m, val |-> val]
    ELSE IF IsWrite(m)
    THEN LET len == Len(val)
             m1  == StreamWrite(m, IntBytes(len))
         IN  [m |-> StreamWrite(m1, SubSeq(val, 1, len)), val |-> val]
    ELSE LET r1  == StreamRead(m, SizeofInt)
             len == BytesInt(Overlay(IntBytes(g), r1.got))
         IN  IF len < 0
             THEN [m |-> [r1.m EXCEPT !.proc = "terminated"], val |-> val]
             ELSE IF len > MaxTextLen
             THEN [m |-> [r1.m EXCEPT !.over = TRUE], val |-> val]
             ELSE LET resized == Resize(val, len, 0)
                      r2      == StreamRead(r1.m, len)
                  IN  [m |-> r2.m, val |-> Overlay(resized, r2.got)]

\* ShlString without its first line, if(!IsStreamValid()) return;
ShlString_NoGuard(m, val, g) ==
    IF Halted(m)
    THEN [m |-> m, val |-> val]
    ELSE IF IsWrite(m)
    THEN LET len == Len(val) + 1
             m1  == StreamWrite(m, IntBytes(len))
         IN  [m   |-> StreamWrite(m1, SubSeq(val \o << 0 >>, 1, len)),
              val |-> val]
    ELSE LET r1  == StreamRead(m, SizeofInt)
             len == BytesInt(Overlay(IntBytes(g), r1.got))
         IN  IF len < 0
             THEN [m |-> [r1.m EXCEPT !.proc = "terminated"], val |-> val]
             ELSE IF len > MaxTextLen
             THEN [m |-> [r1.m EXCEPT !.over = TRUE], val |-> val]
             ELSE LET resized == Resize(val, len, 0)
                      r2      == StreamRead(r1.m, len)
                  IN  [m |-> r2.m, val |-> Overlay(resized, r2.got)]

\* void FileArchive::operator<<(std::string& val) const.  The local len of
\* the read branch is not initialised: g is what it holds before the read,
\* which matters when fewer than 4 bytes are left.  A negative len makes
\* resize throw std::length_error, which nothing catches.
ShlString(m, val, g) ==
    IF Halted(m) \/ ~IsStreamValid(m)
    THEN [m |-> m, val |-> val]
    ELSE IF IsWrite(m)
    THEN LET len == Len(val) + 1
             m1  == StreamWrite(m, IntBytes(len))
         IN  [m   |-> StreamWrite(m1, SubSeq(val \o << 0 >>, 1, len)),
              val |-> val]
    ELSE LET r1  == StreamRead(m, SizeofInt)
             len == BytesInt(Overlay(IntBytes(g), r1.got))
         IN  IF len < 0
             THEN [m |-> [r1.m EXCEPT !.proc = "terminated"], val |-> val]
             ELSE IF len > MaxTextLen
             THEN [m |-> [r1.m EXCEPT !.over = TRUE], val |-> val]
             ELSE LET resized == Resize(val, len, 0)
                      r2      == StreamRead(r1.m, len)
                  IN  [m |-> r2.m, val |-> Overlay(resized, r2.got)]

\* SerializeBuffer without its assert
SerializeBuffer_NoAssert(m, data, bytes) ==
    IF Halted(m) \/ ~IsStreamValid(m)
    THEN [m |-> m, data |-> data]
    ELSE IF IsWrite(m)
    THEN LET m1 == StreamWrite(m, IntBytes(bytes))
         IN  [m |-> StreamWrite(m1, SubSeq(data, 1, bytes)), data |-> data]
    ELSE LET r1 == StreamRead(m, SizeofInt)
             r2 == StreamRead(r1.m, bytes)
         IN  [m |-> r2.m, data |-> Overlay(data, r2.got)]

\* void FileArchive::SerializeBuffer(void* data, int bytes) const; data is
\* the memory it points to.  A failed assert aborts the process.
SerializeBuffer(m, data, bytes) ==
    IF Halted(m) \/ ~IsStreamValid(m)
    THEN [m |-> m, data |-> data]
    ELSE IF IsWrite(m)
    THEN LET m1 == StreamWrite(m, IntBytes(bytes))
         IN  [m |-> StreamWrite(m1, SubSeq(data, 1, bytes)), data |-> data]
    ELSE LET r1         == StreamRead(m, SizeofInt)
             read_bytes == BytesInt(Overlay(IntBytes(0), r1.got))
         IN  IF read_bytes # bytes
             THEN [m |-> [r1.m EXCEPT !.proc = "aborted"], data |-> data]
             ELSE LET r2 == StreamRead(r1.m, bytes)
                  IN  [m |-> r2.m, data |-> Overlay(data, r2.got)]

(***************************************************************************)
(* Archive's container algorithms.                                         *)
(***************************************************************************)
\* whether resize(size) is an allocation within the model's bound
CountOK(size) == size.hi = 0 /\ size.lo <= MaxCount

\* ShlVectorBasic without val.resize(size) in the read branch
ShlVectorBasic_NoResize(m, val) ==
    IF Halted(m)
    THEN [m |-> m, val |-> val]
    ELSE IF IsWrite(m)
    THEN LET size == U32Of(Len(val))
             r0   == ShlUInt(m, size)
             r1   == SerializeBuffer(r0.m, VecImage(val),
                                     Len(val) * SizeofInt)
         IN  [m |-> r1.m, val |-> val]
    ELSE LET r0   == ShlUInt(m, U32Of(0))
             size == r0.val
         IN  IF ~CountOK(size)
             THEN [m |-> [r0.m EXCEPT !.over = TRUE], val |-> val]
             ELSE LET r1 == SerializeBuffer(r0.m, VecImage(val),
                                            Len(val) * SizeofInt)
                  IN  [m |-> r1.m, val |-> ImageVec(r1.data)]

\* ShlVectorBasic whose write branch returns after the count when the
\* vector is empty
ShlVectorBasic_SkipEmpty(m, val) ==
    IF Halted(m)
    THEN [m |-> m, val |-> val]
    ELSE IF IsWrite(m)
    THEN LET size == U32Of(Len(val))
             r0   == ShlUInt(m, size)
             r1   == SerializeBuffer(r0.m, VecImage(val),
                                     Len(val) * SizeofInt)
         IN  [m |-> IF Len(val) = 0 THEN r0.m ELSE r1.m, val |-> val]
    ELSE LET r0   == ShlUInt(m, U32Of(0))
             size == r0.val
         IN  IF ~CountOK(size)
             THEN [m |-> [r0.m EXCEPT !.over = TRUE], val |-> val]
             ELSE LET resized == Resize(val, NatOf(size), 0)
                      r1      == SerializeBuffer(r0.m, VecImage(resized),
                                                 Len(resized) * SizeofInt)
                  IN  [m |-> r1.m, val |-> ImageVec(r1.data)]

\* template<BasicType T> void Archive::operator<<(std::vector<T>& val),
\* for T = int
ShlVectorBasic(m, val) ==
    IF Halted(m)
    THEN [m |-> m, val |-> val]
    ELSE IF IsWrite(m)
    THEN LET size == U32Of(Len(val))
             r0   == ShlUInt(m, size)
             r1   == SerializeBuffer(r0.m, VecImage(val),
                                     Len(val) * SizeofInt)
         IN  [m |-> r1.m, val |-> val]
    ELSE LET r0   == ShlUInt(m, U32Of(0))
             size == r0.val
         IN  IF ~CountOK(size)
             THEN [m |-> [r0.m EXCEPT !.over = TRUE], val |-> val]
             ELSE LET resized == Resize(val, NatOf(size), 0)
                      r1      == SerializeBuffer(r0.m, VecImage(resized),
                                                 Len(resized) * SizeofInt)
                  IN  [m |-> r1.m, val |-> ImageVec(r1.data)]

\* the types the model instantiates operator<< for
Kinds ==
    {"int", "unsigned", "string", "vector_int", "vector_string",
     "vector_vector_int"}

\* T of a std::vector<T> that takes the generic path
ElemKind(kind) ==
    IF kind = "vector_string" THEN "string" ELSE "vector_int"

\* T() of the element type: what resize appends
DefaultElem(kind) == << >>

RECURSIVE Shl(_, _, _, _)
RECURSIVE ForEach(_, _, _, _, _, _)

\* ForEach that leaves the loop after its first element
ForEach_Once(ekind, m, val, idx, size, g) ==
    IF idx >= size \/ Halted(m) \/ m.over
    THEN [m |-> m, val |-> val]
    ELSE Do(Shl(ekind, m, val[idx + 1], g), LAMBDA r :
            [m |-> r.m, val |-> [val EXCEPT ![idx + 1] = r.val]])

\* for(int idx = 0; idx < size; ++idx) { *this << val[idx]; }
ForEach(ekind, m, val, idx, size, g) ==
    IF idx >= size \/ Halted(m) \/ m.over
    THEN [m |-> m, val |-> val]
    ELSE Do(Shl(ekind, m, val[idx + 1], g), LAMBDA r :
         Do([val EXCEPT ![idx + 1] = r.val], LAMBDA val1 :
            ForEach(ekind, r.m, val1, idx + 1, size, g)))

\* ShlVectorGeneric that returns at once on an invalid stream, as the
\* primitives do
ShlVectorGeneric_Guarded(kind, m, val, g) ==
    IF Halted(m) \/ ~IsStreamValid(m)
    THEN [m |-> m, val |-> val]
    ELSE IF IsWrite(m)
    THEN LET size == U32Of(Len(val))
             r0   == ShlUInt(m, size)
         IN  ForEach(ElemKind(kind), r0.m, val, 0, NatOf(size), g)
    ELSE LET r0   == ShlUInt(m, U32Of(0))
             size == r0.val
         IN  IF ~CountOK(size)
             THEN [m |-> [r0.m EXCEPT !.over = TRUE], val |-> val]
             ELSE ForEach(ElemKind(kind), r0.m,
                          Resize(val, NatOf(size), DefaultElem(kind)),
                          0, NatOf(size), g)

\* template<typename T> void Archive::operator<<(std::vector<T>& val),
\* for T = std::string and T = std::vector<int>
ShlVectorGeneric(kind, m, val, g) ==
    IF Halted(m)
    THEN [m |-> m, val |-> val]
    ELSE IF IsWrite(m)
    THEN LET size == U32Of(Len(val))
             r0   == ShlUInt(m, size)
         IN  ForEach(ElemKind(kind), r0.m, val, 0, NatOf(size), g)
    ELSE LET r0   == ShlUInt(m, U32Of(0))
             size == r0.val
         IN  IF ~CountOK(size)
             THEN [m |-> [r0.m EXCEPT !.over = TRUE], val |-> val]
             ELSE ForEach(ElemKind(kind), r0.m,
                          Resize(val, NatOf(size), DefaultElem(kind)),
                          0, NatOf(size), g)

\* arch << val: the overload the compiler picks for val's type
Shl(kind, m, val, g) ==
    CASE kind = "int"               -> ShlInt(m, val)
      [] kind = "unsigned"          -> ShlUInt(m, val)
      [] kind = "string"            -> ShlString(m, val, g)
      [] kind = "vector_int"        -> ShlVectorBasic(m, val)
      [] kind = "vector_string"     -> ShlVectorGeneric(kind, m, val, g)
      [] kind = "vector_vector_int" -> ShlVectorGeneric(kind, m, val, g)

(***************************************************************************)
(* Construction and destruction of a FileArchive.                          *)
(***************************************************************************)
Modes == {"Write", "Read"}

Paths == {"hello.bin", "copy.bin", "nodir/hello.bin"}

\* a path in a directory that does not exist: no stream opens on it
Unopenable == {"nodir/hello.bin"}

\* std::fstream(_path, ios_mode | binary): std::ios::in opens an existing
\* file, std::ios::out creates or truncates one
CanOpen(d, path, mode) ==
    IF mode = "Read" THEN d[path].exists ELSE path \notin Unopenable

\* FileArchive::FileArchive(_path, _mode): the archive, and the disk after
FileArchive(d, path, mode) ==
    LET ok == CanOpen(d, path, mode)
    IN  [a |-> [mode |-> mode, path |-> path, open |-> ok, fail |-> ~ok,
                pos |-> 0],
         d |-> IF ok /\ mode = "Write"
               THEN [d EXCEPT ![path] = [exists |-> TRUE, bytes |-> << >>]]
               ELSE d]

\* the calls of file_->close() that the body of FileArchive::~FileArchive
\* makes
DtorCloseCalls(a) == IF ~IsStreamValid(a) THEN 1 ELSE 0

\* FileArchive::~FileArchive, then the destruction of the member file_,
\* whose std::fstream destructor closes a file that is still open
Destructor(a) ==
    LET calls == DtorCloseCalls(a)
    IN  [ran        |-> TRUE,
         valid      |-> IsStreamValid(a),
         wasOpen    |-> a.open,
         closeCalls |-> calls,
         byMember   |-> a.open /\ calls = 0,
         handleOpen |-> FALSE]

\* the archive a with the bytes of its file, as the primitives see it
Mach(a, d, p) ==
    [mode |-> a.mode, open |-> a.open, fail |-> a.fail, pos |-> a.pos,
     bytes |-> d[a.path].bytes, proc |-> p, over |-> FALSE]

(***************************************************************************)
(* The example object and the orchestration.                               *)
(***************************************************************************)
\* Foo f; (the member initialisers)
DefaultFoo ==
    [integer |-> 0, str |-> << >>, vector |-> << >>, vector_str |-> << >>]

\* FooSerialize that passes its members in another order when it reads
FooSerialize_ModeOrder(m, f, g) ==
    IF IsWrite(m)
    THEN Do(Shl("int", m, f.integer, g), LAMBDA r1 :
         Do(Shl("string", r1.m, f.str, g), LAMBDA r2 :
         Do(Shl("vector_int", r2.m, f.vector, g), LAMBDA r3 :
         Do(Shl("vector_string", r3.m, f.vector_str, g), LAMBDA r4 :
            [m   |-> r4.m,
             val |-> [integer |-> r1.val, str |-> r2.val,
                      vector |-> r3.val, vector_str |-> r4.val]]))))
    ELSE Do(Shl("int", m, f.integer, g), LAMBDA r1 :
         Do(Shl("string", r1.m, f.str, g), LAMBDA r2 :
         Do(Shl("vector_string", r2.m, f.vector_str, g), LAMBDA r4 :
         Do(Shl("vector_int", r4.m, f.vector, g), LAMBDA r3 :
            [m   |-> r3.m,
             val |-> [integer |-> r1.val, str |-> r2.val,
                      vector |-> r3.val, vector_str |-> r4.val]]))))

\* void Foo::Serialize(Archive& arch)
FooSerialize(m, f, g) ==
    Do(Shl("int", m, f.integer, g), LAMBDA r1 :
    Do(Shl("string", r1.m, f.str, g), LAMBDA r2 :
    Do(Shl("vector_int", r2.m, f.vector, g), LAMBDA r3 :
    Do(Shl("vector_string", r3.m, f.vector_str, g), LAMBDA r4 :
       [m   |-> r4.m,
        val |-> [integer |-> r1.val, str |-> r2.val, vector |-> r3.val,
                 vector_str |-> r4.val]]))))

\* the body shared by Archive::SerializeToFile and
\* Archive::SerializeFromFile: FileArchive file(_path, mode);
\* _obj.Serialize(file); and, unless the process died, file's destructor
Serialize(d, p, obj, path, mode, g) ==
    Do(FileArchive(d, path, mode), LAMBDA c :
    Do(Mach(c.a, c.d, p), LAMBDA m :
    Do(FooSerialize(m, obj, g), LAMBDA r :
       [d      |-> [c.d EXCEPT ![path].bytes = r.m.bytes],
        obj    |-> r.val,
        proc   |-> r.m.proc,
        over   |-> r.m.over,
        opened |-> c.a.open,
        dtor   |-> Destructor([c.a EXCEPT !.fail = r.m.fail,
                                          !.pos = r.m.pos])])))

\* static void Archive::SerializeToFile(ISerializable& _obj, _path)
SerializeToFile(d, p, obj, path, g) == Serialize(d, p, obj, path, "Write", g)

\* static void Archive::SerializeFromFile(ISerializable& _obj, _path)
SerializeFromFile(d, p, obj, path, g) ==
    Serialize(d, p, obj, path, "Read", g)

(***************************************************************************)
(* The inputs: the values a client passes to operator<<, in Write mode as  *)
(* the value to save and in Read mode as what the destination held.        *)
(***************************************************************************)
IntVals == {-2147483647 - 1, -1, 2147483647}

\* 2 and 4294967295
UIntVals == {U32Of(2), [hi |-> 65535, lo |-> 65535]}

\* "" and "Hi"
StringVals == {<< >>, << 72, 105 >>}

VecIntVals == {<< >>, << -1, 258 >>}

\* {} and {"Hi", ""}
VecStringVals == {<< >>, << << 72, 105 >>, << >> >>}

VecVecVals == {<< >>, << << 7 >> >>}

Vals(kind) ==
    CASE kind = "int"               -> IntVals
      [] kind = "unsigned"          -> UIntVals
      [] kind = "string"            -> StringVals
      [] kind = "vector_int"        -> VecIntVals
      [] kind = "vector_string"     -> VecStringVals
      [] kind = "vector_vector_int" -> VecVecVals

\* what the uninitialised local len of the text read may hold
Garbage == {-1, 0, 2}

\* the types whose operator<< reaches the text read
HasText(kind) == kind \in {"string", "vector_string"}

\* the contents of len that a call of type kind in mode mode can tell apart
GarbageFor(kind, mode) ==
    IF HasText(kind) /\ mode = "Read" THEN Garbage ELSE {0}

\* the objects main may build before it saves one
FooVals ==
    [integer : {2, -1}, str : StringVals, vector : VecIntVals,
     vector_str : VecStringVals]

\* the files SerializeToFile / SerializeFromFile are called on
FooPaths == {"hello.bin", "copy.bin"}

\* the files an archive is constructed on directly
StepPaths == {"hello.bin", "nodir/hello.bin"}

(***************************************************************************)
(* State.                                                                  *)
(*   disk     the files: disk[path] = [exists, bytes]                      *)
(*   arch     the live FileArchive, or NoArchive                           *)
(*   proc     the process: "running", "aborted", "terminated"              *)
(*   dtor     what the last destruction of a FileArchive did               *)
(*   last     the last operator<< call on the live arch: its argument      *)
(*            before and after, the stream before and after                *)
(*   written  the calls that wrote the present content of hello.bin        *)
(*   nops     the number of operator<< calls made on arch                  *)
(*   sync     arch reads hello.bin, opened it, and its calls so far have   *)
(*            the types of the first calls of written, in order            *)
(*   foo      the object main saves; fooOrig, what it was at construction  *)
(*   target   target[path]: the object main loads the file path into       *)
(*   loaded   loaded[path]: "no", or how the last load of path opened      *)
(***************************************************************************)
VARIABLES disk, arch, proc, dtor, last, written, nops, sync,
          foo, fooOrig, target, loaded

vars ==
    << disk, arch, proc, dtor, last, written, nops, sync,
       foo, fooOrig, target, loaded >>

stepVars == << arch, last, written, nops, sync >>

fooVars == << foo, fooOrig, target, loaded >>

NoArchive ==
    [mode |-> "None", path |-> "", open |-> FALSE, fail |-> TRUE, pos |-> 0]

NoCall ==
    [kind |-> "none", mode |-> "None", valid0 |-> FALSE, valid1 |-> FALSE,
     opened |-> FALSE, before |-> 0, after |-> 0, pos0 |-> 0, pos1 |-> 0,
     len0 |-> 0, len1 |-> 0]

NoDtor ==
    [ran |-> FALSE, valid |-> FALSE, wasOpen |-> FALSE, closeCalls |-> 0,
     byMember |-> FALSE, handleOpen |-> FALSE]

InitCommon ==
    /\ disk = [p \in Paths |-> [exists |-> FALSE, bytes |-> << >>]]
    /\ arch = NoArchive
    /\ proc = "running"
    /\ dtor = NoDtor
    /\ last = NoCall
    /\ written = << >>
    /\ nops = 0
    /\ sync = FALSE
    /\ target = [p \in FooPaths |-> DefaultFoo]
    /\ loaded = [p \in FooPaths |-> "no"]

Init ==
    /\ InitCommon
    /\ foo = DefaultFoo
    /\ fooOrig = DefaultFoo

(***************************************************************************)
(* A client that constructs a FileArchive, calls operator<< on it and      *)
(* lets it go out of scope.                                                *)
(***************************************************************************)
\* FileArchive file(_path, mode);
Construct ==
    /\ arch = NoArchive
    /\ proc = "running"
    /\ \E path \in StepPaths, mode \in Modes :
         LET c == FileArchive(disk, path, mode)
         IN  /\ arch' = c.a
             /\ disk' = c.d
             /\ written' = IF mode = "Write" /\ c.a.open
                           THEN << >> ELSE written
             /\ sync' = (mode = "Read" /\ c.a.open)
    /\ nops' = 0
    /\ last' = NoCall
    /\ UNCHANGED << proc, dtor, fooVars >>

\* file << val, for a val of type kind
Call(kind) ==
    /\ arch # NoArchive
    /\ proc = "running"
    /\ nops < MaxOps
    /\ \E val \in Vals(kind), g \in GarbageFor(kind, arch.mode),
          m \in {Mach(arch, disk, proc)} :
         \E r \in {Shl(kind, m, val, g)} :
             /\ ~r.m.over
             /\ Len(r.m.bytes) <= MaxFileLen
             /\ arch' = [arch EXCEPT !.fail = r.m.fail, !.pos = r.m.pos]
             /\ disk' = [disk EXCEPT ![arch.path].bytes = r.m.bytes]
             /\ proc' = r.m.proc
             /\ last' = [kind |-> kind, mode |-> arch.mode,
                         valid0 |-> IsStreamValid(m),
                         valid1 |-> IsStreamValid(r.m),
                         opened |-> arch.open,
                         before |-> val, after |-> r.val,
                         pos0 |-> m.pos, pos1 |-> r.m.pos,
                         len0 |-> Len(m.bytes), len1 |-> Len(r.m.bytes)]
             /\ written' = IF IsWrite(m) /\ IsStreamValid(m)
                           THEN Append(written, [kind |-> kind, val |-> val])
                           ELSE written
             /\ sync' = /\ sync
                        /\ nops < Len(written)
                        /\ written[nops + 1].kind = kind
    /\ nops' = nops + 1
    /\ UNCHANGED << dtor, fooVars >>

CallInt == Call("int")

CallUInt == Call("unsigned")

CallString == Call("string")

CallVectorInt == Call("vector_int")

CallVectorString == Call("vector_string")

CallVectorVector == Call("vector_vector_int")

\* file goes out of scope
Destroy ==
    /\ arch # NoArchive
    /\ proc = "running"
    /\ dtor' = Destructor(arch)
    /\ arch' = NoArchive
    /\ last' = NoCall
    /\ nops' = 0
    /\ sync' = FALSE
    /\ UNCHANGED << disk, proc, written, fooVars >>

Next ==
    \/ Construct
    \/ CallInt
    \/ CallUInt
    \/ CallString
    \/ CallVectorInt
    \/ CallVectorString
    \/ CallVectorVector
    \/ Destroy

Spec == Init /\ [][Next]_vars

(***************************************************************************)
(* main: an object is saved to files and loaded from them.                 *)
(***************************************************************************)
InitFoo ==
    /\ InitCommon
    /\ foo \in FooVals
    /\ fooOrig = foo

\* Archive::SerializeToFile(f, path);
SaveFoo ==
    /\ proc = "running"
    /\ \E path \in FooPaths, g \in Garbage :
         \E r \in {SerializeToFile(disk, proc, foo, path, g)} :
             /\ ~r.over
             /\ disk' = r.d
             /\ foo' = r.obj
             /\ proc' = r.proc
             /\ dtor' = IF r.proc = "running" THEN r.dtor ELSE dtor
    /\ UNCHANGED << stepVars, fooOrig, target, loaded >>

\* Archive::SerializeFromFile(ff, path);
LoadFoo ==
    /\ proc = "running"
    /\ \E path \in FooPaths, g \in Garbage :
         \E r \in {SerializeFromFile(disk, proc, target[path], path, g)} :
             /\ ~r.over
             /\ disk' = r.d
             /\ target' = [target EXCEPT ![path] = r.obj]
             /\ loaded' = [loaded EXCEPT
                             ![path] = IF r.opened THEN "ok" ELSE "failed"]
             /\ proc' = r.proc
             /\ dtor' = IF r.proc = "running" THEN r.dtor ELSE dtor
    /\ UNCHANGED << stepVars, foo, fooOrig >>

NextFoo == SaveFoo \/ LoadFoo

SpecFoo == InitFoo /\ [][NextFoo]_vars

(***************************************************************************)
(* Vocabulary of the properties.                                           *)
(***************************************************************************)
VectorKinds == {"vector_int", "vector_string", "vector_vector_int"}

\* the 4-byte field that holds the small number n
Field(n) == << n, 0, 0, 0 >>

\* the bytes of the file of the live archive
FileBytes == disk[arch.path].bytes

\* the bytes the last call appended to the file
Emitted == SubSeq(FileBytes, last.len0 + 1, last.len1)

\* the bytes of the file from where the last call started to read
Ahead == SubSeq(FileBytes, last.pos0 + 1, Len(FileBytes))

\* the last call wrote to a valid stream
Wrote(kind) == last.kind = kind /\ last.mode = "Write" /\ last.valid0

\* the last call read, from a file that opened, the value that the call of
\* the same type and the same rank wrote
ReadBack(kind) == last.kind = kind /\ last.mode = "Read" /\ sync

\* the value that call wrote
Original == written[nops].val

\* the text s with the terminator byte appended
Terminated(s) == s \o << 0 >>

(***************************************************************************)
(* C1  Scalar round-trip: an int or unsigned int written by a Write-mode   *)
(* archive and read by a Read-mode archive over the same file comes back   *)
(* as the same value, whatever the destination held, and each direction    *)
(* transfers exactly 4 bytes.                                              *)
(***************************************************************************)
C1_ScalarRoundTrip ==
    \A kind \in {"int", "unsigned"} :
        /\ Wrote(kind) => last.len1 - last.len0 = 4
        /\ ReadBack(kind) =>
              /\ last.after = Original
              /\ last.pos1 - last.pos0 = 4
              /\ last.valid1

C1_Witness ==
    /\ ReadBack("int")
    /\ last.after = -2147483647 - 1
    /\ last.before = 2147483647
    /\ nops = 2
    /\ written[1].kind = "unsigned"

(***************************************************************************)
(* C2  Plain-numeric container round-trip: a vector<int> is written as its *)
(* element count, a byte count of 4 * count and the raw elements; read     *)
(* into any destination it comes back equal, in length and in every        *)
(* element in order.                                                       *)
(***************************************************************************)
C2_PlainContainerRoundTrip ==
    /\ Wrote("vector_int") =>
          LET n == Len(last.before)
          IN  /\ Len(Emitted) = 8 + 4 * n
              /\ SubSeq(Emitted, 1, 4) = Field(n)
              /\ SubSeq(Emitted, 5, 8) = Field(4 * n)
              /\ \A i \in 1..n :
                    BytesInt(SubSeq(Emitted, 5 + 4 * i, 8 + 4 * i))
                       = last.before[i]
    /\ ReadBack("vector_int") =>
          /\ Len(last.after) = Len(Original)
          /\ \A i \in 1..Len(Original) : last.after[i] = Original[i]
          /\ last.valid1
          /\ proc = "running"

C2_Witness ==
    /\ ReadBack("vector_int")
    /\ last.after = << -1, 258 >>
    /\ last.before = << >>

(***************************************************************************)
(* C3, as claimed: a container of composite elements read back is equal    *)
(* to the one written, element by element.                                 *)
(***************************************************************************)
C3_CompositeEqual ==
    \A kind \in {"vector_string", "vector_vector_int"} :
        ReadBack(kind) =>
            /\ Len(last.after) = Len(Original)
            /\ \A i \in 1..Len(Original) : last.after[i] = Original[i]

(***************************************************************************)
(* C3, amended: the generic path writes the count and then each element in *)
(* index order; read back, the container has the length of the one         *)
(* written and element i is what reading element i alone yields: a nested  *)
(* vector<int> equal to the original, a text the original with one         *)
(* terminator byte appended.                                               *)
(***************************************************************************)
C3_CompositeRoundTrip ==
    /\ \A kind \in {"vector_string", "vector_vector_int"} :
          Wrote(kind) => SubSeq(Emitted, 1, 4) = Field(Len(last.before))
    /\ Wrote("vector_string") =>
          /\ Len(last.before) = 0 => Len(Emitted) = 4
          /\ Len(last.before) = 2 =>
                Emitted = Field(2)
                          \o Field(Len(last.before[1]) + 1)
                          \o Terminated(last.before[1])
                          \o Field(Len(last.before[2]) + 1)
                          \o Terminated(last.before[2])
    /\ ReadBack("vector_string") =>
          /\ Len(last.after) = Len(Original)
          /\ \A i \in 1..Len(Original) :
                last.after[i] = Terminated(Original[i])
          /\ last.valid1
    /\ ReadBack("vector_vector_int") =>
          /\ Len(last.after) = Len(Original)
          /\ \A i \in 1..Len(Original) : last.after[i] = Original[i]
          /\ last.valid1

C3_Witness ==
    /\ ReadBack("vector_string")
    /\ Original = << << 72, 105 >>, << >> >>
    /\ last.after = << << 72, 105, 0 >>, << 0 >> >>

(***************************************************************************)
(* C4  Text encoding boundary: a text of n chars is written as a 4-byte    *)
(* length n + 1 and n + 1 bytes, the chars and one terminator; read back   *)
(* it has length n + 1, the original chars first and the terminator last.  *)
(***************************************************************************)
C4_TextBoundary ==
    /\ Wrote("string") =>
          LET n == Len(last.before)
          IN  /\ Len(Emitted) = 4 + n + 1
              /\ SubSeq(Emitted, 1, 4) = Field(n + 1)
              /\ SubSeq(Emitted, 5, 4 + n) = last.before
              /\ Emitted[4 + n + 1] = 0
    /\ ReadBack("string") =>
          LET n == Len(Original)
          IN  /\ Len(last.after) = n + 1
              /\ SubSeq(last.after, 1, n) = Original
              /\ last.after[n + 1] = 0
              /\ last.pos1 - last.pos0 = 4 + n + 1

C4_Witness ==
    /\ ReadBack("string")
    /\ Original = << 72, 105 >>
    /\ last.after = << 72, 105, 0 >>
    /\ last.before = << >>

(***************************************************************************)
(* C5  Stream-validity policy: on an archive whose stream failed to open,  *)
(* in either mode, every int, unsigned int and text call and every         *)
(* SerializeBuffer call is a no-op: nothing is written, nothing is read,   *)
(* the argument keeps its value.                                           *)
(***************************************************************************)
\* the memory blocks SerializeBuffer is tried on
BufferVals == {<< >>, << 7, 0, 0, 0 >>, << 255, 255, 255, 255, 2, 1, 0, 0 >>}

C5_FailedOpenNoOp ==
    /\ \A kind \in {"int", "unsigned", "string"} :
          last.kind = kind /\ ~last.opened =>
              /\ last.after = last.before
              /\ last.pos1 = last.pos0
              /\ last.len1 = last.len0
              /\ disk[arch.path] = [exists |-> FALSE, bytes |-> << >>]
    /\ arch # NoArchive /\ ~arch.open =>
          \A data \in BufferVals :
              LET m == Mach(arch, disk, proc)
              IN  SerializeBuffer(m, data, Len(data)) = [m |-> m, data |-> data]

C5_Witness ==
    /\ last.kind = "string"
    /\ ~last.opened
    /\ last.mode = "Read"
    /\ last.before = << 72, 105 >>
    /\ nops = 2

(***************************************************************************)
(* C6  Corrupted-length abort: when a vector<int> is read from a valid     *)
(* stream and the stored byte count differs from 4 * (the count just       *)
(* read), the process aborts there: no payload byte reaches the container  *)
(* (it is the destination resized to the count, nothing more), the stream  *)
(* stands right after the byte count, and no later call is made.           *)
(***************************************************************************)
\* the last call read a vector<int> whose count c and byte count are both
\* in the file and disagree
CorruptedLength(c) ==
    /\ last.kind = "vector_int"
    /\ last.mode = "Read"
    /\ last.valid0
    /\ Len(Ahead) >= 8
    /\ SubSeq(Ahead, 1, 4) = Field(c)
    /\ SubSeq(Ahead, 5, 8) # Field(4 * c)

C6_CorruptedLengthAborts ==
    /\ \A c \in 0..MaxCount :
          CorruptedLength(c) =>
              /\ proc = "aborted"
              /\ last.pos1 = last.pos0 + 8
              /\ Len(last.after) = c
              /\ \A i \in 1..c :
                    last.after[i] = IF i <= Len(last.before)
                                    THEN last.before[i] ELSE 0
    /\ proc = "aborted" =>
          /\ last.kind \in {"vector_int", "vector_vector_int"}
          /\ last.mode = "Read"
          /\ ~ENABLED Next

C6_Witness ==
    /\ CorruptedLength(2)
    /\ last.before = << -1, 258 >>
    /\ Len(FileBytes) >= last.pos0 + 16

(***************************************************************************)
(* C7, as claimed: the destructor of every FileArchive closes the stream   *)
(* exactly once, whether the stream is valid or not.                       *)
(***************************************************************************)
C7_ClosedOnceUnconditionally == dtor.ran => dtor.closeCalls = 1

(***************************************************************************)
(* C8  Empty-container boundary: an empty container is written as a count  *)
(* of 0 and no payload byte (on the plain-numeric path the byte count, 0,  *)
(* follows the count), and read back into any destination, empty or not,   *)
(* it is empty.                                                            *)
(***************************************************************************)
C8_EmptyContainer ==
    \A kind \in VectorKinds :
        /\ Wrote(kind) /\ Len(last.before) = 0 =>
              /\ SubSeq(Emitted, 1, 4) = Field(0)
              /\ Emitted = IF kind = "vector_int"
                           THEN Field(0) \o Field(0) ELSE Field(0)
        /\ ReadBack(kind) /\ Len(Original) = 0 =>
              /\ Len(last.after) = 0
              /\ last.valid1

C8_Witness ==
    /\ ReadBack("vector_string")
    /\ Len(Original) = 0
    /\ Len(last.before) = 2
    /\ Len(last.after) = 0

(***************************************************************************)
(* C9  Idempotence across files: saving leaves every field of the object   *)
(* as it was, so the files the same object is saved to hold the same       *)
(* bytes, and every object loaded from one of them is the original with    *)
(* one terminator byte appended to each text.                              *)
(***************************************************************************)
\* the object f with the terminator appended to each of its texts
FooTerminated(f) ==
    [integer    |-> f.integer,
     str        |-> Terminated(f.str),
     vector     |-> f.vector,
     vector_str |-> [i \in 1..Len(f.vector_str) |->
                        Terminated(f.vector_str[i])]]

C9_IdempotentAcrossFiles ==
    /\ foo = fooOrig
    /\ \A p \in FooPaths, q \in FooPaths :
          disk[p].exists /\ disk[q].exists =>
              /\ disk[p].bytes = disk[q].bytes
              /\ Len(disk[p].bytes) >= 20
    /\ \A p \in FooPaths :
          loaded[p] = "ok" => target[p] = FooTerminated(fooOrig)
    /\ \A p \in FooPaths, q \in FooPaths :
          loaded[p] = "ok" /\ loaded[q] = "ok" => target[p] = target[q]

C9_Witness ==
    /\ \A p \in FooPaths : loaded[p] = "ok"
    /\ fooOrig.str = << 72, 105 >>
    /\ Len(fooOrig.vector_str) = 2
    /\ Len(fooOrig.vector) = 2
    /\ target["copy.bin"].vector_str = << << 72, 105, 0 >>, << 0 >> >>

(***************************************************************************)
(* C10  On an invalid stream (one that failed to open, or that failed on   *)
(* an earlier short read) a Read-mode container call, on either path,      *)
(* empties its destination, while an int, unsigned int or text destination *)
(* keeps its value; a Write-mode call leaves its argument as it was.  No   *)
(* byte is transferred.                                                    *)
(***************************************************************************)
C10_InvalidStreamContainer ==
    last.kind # "none" /\ ~last.valid0 =>
        /\ last.mode = "Read" /\ last.kind \in VectorKinds =>
              Len(last.after) = 0
        /\ last.mode = "Read" /\ last.kind \notin VectorKinds =>
              last.after = last.before
        /\ last.mode = "Write" => last.after = last.before
        /\ last.pos1 = last.pos0
        /\ last.len1 = last.len0

C10_Witness ==
    /\ last.kind = "vector_vector_int"
    /\ last.mode = "Read"
    /\ ~last.valid0
    /\ last.opened
    /\ last.before = << << 7 >> >>
    /\ last.after = << >>

====
